---------------------------- MODULE Spec2Model ----------------------------
(***************************************************************************)
(* State-machine model of great_expectations_cloud/agent/message_service/  *)
(* subscriber.py: Subscriber.consume with its exception handlers and the   *)
(* reconnect-delay policy, the per-delivery dispatch _on_message_handler,  *)
(* the EventContext actions and the _redeliver_message coroutine.          *)
(***************************************************************************)
EXTENDS Integers, Sequences, FiniteSets

(* ------------------------------ bounds -------------------------------- *)

\* deliveries made by the broker client over the life of the Subscriber
MaxDeliveries == 2

\* invocations of EventContext actions by the caller, over all messages
MaxInvocations == 2

\* calls of consume on the Subscriber while messages are modelled (Spec);
\* SpecConsume leaves the number of calls open
MaxConsumeCalls == 2

\* calls of close on the Subscriber
MaxCloseCalls == 2

(* ------------------------- program constants -------------------------- *)

\* min(self._reconnect_delay, 30)
MaxReconnectDelay == 30

\* delay=3 bound into the redeliver_message partial
RedeliverDelay == 3

\* self._reconnect_delay = 0
InitialReconnectDelay == 0

(* ------------------------- exception classes -------------------------- *)

\* The exception kinds that can be in flight inside consume.  AMQPConnection-
\* Error stands for any AMQPError other than AuthenticationError; ParseError
\* stands for whatever EventHandler.parse_event_from raises (a class that no
\* except clause of consume names).
ExceptionKinds ==
    {"AuthenticationError", "AMQPConnectionError", "ChannelError",
     "KeyboardInterrupt", "GXAgentUnrecoverableConnectionError", "ParseError"}

\* the classes each kind is an instance of (pika.exceptions hierarchy)
ClassesOf(kind) ==
    CASE kind = "AuthenticationError" ->
             {"AuthenticationError", "AMQPConnectionError", "AMQPError", "Exception"}
      [] kind = "AMQPConnectionError" -> {"AMQPConnectionError", "AMQPError", "Exception"}
      [] kind = "ChannelError" -> {"ChannelError", "Exception"}
      [] kind = "KeyboardInterrupt" -> {"KeyboardInterrupt", "BaseException"}
      [] kind = "GXAgentUnrecoverableConnectionError" ->
             {"GXAgentUnrecoverableConnectionError", "Exception"}
      [] OTHER -> {kind, "Exception"}

\* the clauses with the AMQP clause moved above the authentication clause
ExceptClauses_AMQPFirst ==
    << [name |-> "amqp", classes |-> {"AMQPError", "ChannelError"}],
       [name |-> "authentication", classes |-> {"AuthenticationError"}],
       [name |-> "interrupt", classes |-> {"KeyboardInterrupt"}],
       [name |-> "unrecoverable", classes |-> {"GXAgentUnrecoverableConnectionError"}] >>

\* the except clauses of consume, in source order
ExceptClauses ==
    << [name |-> "authentication", classes |-> {"AuthenticationError"}],
       [name |-> "amqp", classes |-> {"AMQPError", "ChannelError"}],
       [name |-> "interrupt", classes |-> {"KeyboardInterrupt"}],
       [name |-> "unrecoverable", classes |-> {"GXAgentUnrecoverableConnectionError"}] >>

\* Python's rule: the first clause, in order, whose classes the exception is
\* an instance of; "unhandled" when no clause matches.
MatchClause(clauses, kind) ==
    LET hits == {i \in 1..Len(clauses) : clauses[i].classes \cap ClassesOf(kind) # {}}
    IN  IF hits = {} THEN "unhandled"
        ELSE clauses[CHOOSE i \in hits : \A j \in hits : i <= j].name

Handler(kind) == MatchClause(ExceptClauses, kind)

(* ----------------------- reconnect-delay policy ----------------------- *)

Min(a, b) == IF a <= b THEN a ELSE b

\* the policy without the clamp of line 166
GetReconnectDelay_NoClamp(was_consuming_now, current) ==
    IF was_consuming_now THEN 0 ELSE current + 1

\* the policy clamping one above the maximum
GetReconnectDelay_ClampOffByOne(was_consuming_now, current) ==
    LET stepped == IF was_consuming_now THEN 0 ELSE current + 1
    IN  Min(stepped, MaxReconnectDelay + 1)

\* Subscriber._get_reconnect_delay: the new value of self._reconnect_delay,
\* which is also the value returned
GetReconnectDelay(was_consuming_now, current) ==
    LET stepped == IF was_consuming_now THEN 0 ELSE current + 1
    IN  Min(stepped, MaxReconnectDelay)

(* ------------------------------- state -------------------------------- *)

VARIABLES
    self_reconnect_delay, \* Subscriber._reconnect_delay
    pc,                   \* position of the thread in consume
    exc,                  \* exception client.run raised in this call, or "none"
    reconnect_delay,      \* the local of consume passed to time.sleep
    outcome,              \* how the last consume call ended, "none" while running
    log,                  \* events of the current (or last) consume call
    entry_delay,          \* self._reconnect_delay when consume was entered
    was_consuming,        \* client.was_consuming
    calls,                \* calls of consume so far, counted up to MaxConsumeCalls
    backoffs,             \* transient failures without consuming since the last one
                          \* with consuming, counted up to MaxReconnectDelay + 1
    next_tag,             \* delivery tag of the next delivery
    cur,                  \* delivery tag being dispatched, 0 when none
    payload,              \* OnMessagePayload of each delivery
    msg,                  \* where each delivery is in _on_message_handler
    handled,              \* EventContexts passed to on_message, in order
    obtained,             \* callbacks obtained from the client's get_threadsafe_*
    returned,             \* what _on_message_handler returned for each delivery
    broker,               \* acks and nacks the client has issued, per tag
    invoked,              \* times the caller invoked each action of each message
    coros,                \* _redeliver_message coroutines, in creation order
    closes,               \* calls of close so far
    close_stops           \* calls of client.stop() made by close

vars == << self_reconnect_delay, pc, exc, reconnect_delay, outcome, log,
           entry_delay, was_consuming, calls, backoffs, next_tag, cur, payload, msg,
           handled, obtained, returned, broker, invoked, coros, closes, close_stops >>

consume_vars == << self_reconnect_delay, pc, exc, reconnect_delay, outcome,
                   log, entry_delay, was_consuming, calls, backoffs >>

dispatch_vars == << next_tag, cur, payload, msg, handled, obtained, returned >>

close_vars == << closes, close_stops >>

action_vars == << broker, invoked, coros >>

Tags == 1..MaxDeliveries

NoDelay == -1
NoResult == "not_returned"
NoPayload == [body |-> "none", delivery_tag |-> 0, correlation_id |-> "none"]

ActionFields == {"processed_successfully", "processed_with_failures", "redeliver_message"}

Bodies == {"event", "garbage"}
CorrelationIds == {"corr_a", "corr_b"}

(* ----------------------------- collaborators -------------------------- *)

\* EventHandler.parse_event_from: the typed event of a body, or a failure
ParseEventFrom(body) ==
    IF body = "garbage" THEN [ok |-> FALSE, event |-> "none"]
    ELSE [ok |-> TRUE, event |-> "parsed_" \o body]

\* AsyncRabbitMQClient: the effect of an ack or nack on the broker's record of
\* a delivery
ClientAck(b, delivery_tag) ==
    [b EXCEPT ![delivery_tag].ack = @ + 1]

ClientNack(b, delivery_tag, requeue) ==
    IF requeue THEN [b EXCEPT ![delivery_tag].nack_requeue = @ + 1]
    ELSE [b EXCEPT ![delivery_tag].nack = @ + 1]

(* -------------------------------- Init -------------------------------- *)

Init ==
    /\ self_reconnect_delay = InitialReconnectDelay
    /\ pc = "idle"
    /\ exc = "none"
    /\ reconnect_delay = NoDelay
    /\ outcome = "none"
    /\ log = << >>
    /\ entry_delay = InitialReconnectDelay
    /\ was_consuming = FALSE
    /\ calls = 0
    /\ backoffs = 0
    /\ next_tag = 1
    /\ cur = 0
    /\ payload = [t \in Tags |-> NoPayload]
    /\ msg = [t \in Tags |-> "undelivered"]
    /\ handled = << >>
    /\ obtained = {}
    /\ returned = [t \in Tags |-> NoResult]
    /\ broker = [t \in Tags |-> [ack |-> 0, nack |-> 0, nack_requeue |-> 0]]
    /\ invoked = [t \in Tags |-> [f \in ActionFields |-> 0]]
    /\ coros = << >>
    /\ closes = 0
    /\ close_stops = 0

(* ------------------------------ consume ------------------------------- *)

\* consume is called: the callback is built and client.run is entered
EnterConsume ==
    /\ pc = "idle"
    /\ calls' = Min(calls + 1, MaxConsumeCalls)
    /\ pc' = "run"
    /\ exc' = "none"
    /\ reconnect_delay' = NoDelay
    /\ outcome' = "none"
    /\ log' = << "run" >>
    /\ entry_delay' = self_reconnect_delay
    /\ UNCHANGED << self_reconnect_delay, was_consuming, backoffs >>
    /\ UNCHANGED dispatch_vars
    /\ UNCHANGED action_vars
    /\ UNCHANGED close_vars

\* a call of consume, among the first MaxConsumeCalls
Consume ==
    /\ calls < MaxConsumeCalls
    /\ EnterConsume

\* a call of consume, however many came before
ConsumeAgain == EnterConsume

\* consume stopping the client on the way out of a clean run as well
RunReturns_StopsClient ==
    /\ pc = "run"
    /\ cur = 0
    /\ pc' = "idle"
    /\ outcome' = "returned"
    /\ log' = log \o << "stop", "return" >>
    /\ UNCHANGED << self_reconnect_delay, exc, reconnect_delay, entry_delay, was_consuming, calls, backoffs >>
    /\ UNCHANGED dispatch_vars
    /\ UNCHANGED action_vars
    /\ UNCHANGED close_vars

\* a clean return starting the backoff over
RunReturns_ResetsDelay ==
    /\ pc = "run"
    /\ cur = 0
    /\ pc' = "idle"
    /\ outcome' = "returned"
    /\ log' = Append(log, "return")
    /\ self_reconnect_delay' = InitialReconnectDelay
    /\ UNCHANGED << exc, reconnect_delay, entry_delay, was_consuming, calls, backoffs >>
    /\ UNCHANGED dispatch_vars
    /\ UNCHANGED action_vars
    /\ UNCHANGED close_vars

\* client.run returns without error: the else clause breaks out of the loop
RunReturns ==
    /\ pc = "run"
    /\ cur = 0
    /\ pc' = "idle"
    /\ outcome' = "returned"
    /\ log' = Append(log, "return")
    /\ UNCHANGED << self_reconnect_delay, exc, reconnect_delay, entry_delay, was_consuming, calls, backoffs >>
    /\ UNCHANGED dispatch_vars
    /\ UNCHANGED action_vars
    /\ UNCHANGED close_vars

\* client.run raises a broker-level error; the client reports whether it had
\* been consuming
RunRaises(kind, wc) ==
    /\ pc = "run"
    /\ cur = 0
    /\ pc' = "except"
    /\ exc' = kind
    /\ was_consuming' = wc
    /\ UNCHANGED << self_reconnect_delay, reconnect_delay, outcome, log, entry_delay, calls, backoffs >>
    /\ UNCHANGED dispatch_vars
    /\ UNCHANGED action_vars
    /\ UNCHANGED close_vars

\* a KeyboardInterrupt arrives while the thread is inside client.run; a
\* dispatch in progress is abandoned
RunInterrupted ==
    /\ pc = "run"
    /\ pc' = "except"
    /\ exc' = "KeyboardInterrupt"
    /\ cur' = 0
    /\ msg' = IF cur = 0 THEN msg ELSE [msg EXCEPT ![cur] = "aborted"]
    /\ UNCHANGED << self_reconnect_delay, reconnect_delay, outcome, log, entry_delay,
                    was_consuming, calls, backoffs >>
    /\ UNCHANGED << next_tag, payload, handled, obtained, returned >>
    /\ UNCHANGED action_vars
    /\ UNCHANGED close_vars

\* an exception of this kind leaves consume
Raise(kind, events) ==
    /\ pc' = "idle"
    /\ outcome' = kind
    /\ log' = log \o events
    /\ UNCHANGED exc

\* except AuthenticationError: self.client.stop(); raise
ExceptAuthentication ==
    /\ pc = "except"
    /\ Handler(exc) = "authentication"
    /\ Raise(exc, << "stop", "raise" >>)
    /\ UNCHANGED << self_reconnect_delay, reconnect_delay, entry_delay, was_consuming, calls, backoffs >>
    /\ UNCHANGED dispatch_vars
    /\ UNCHANGED action_vars
    /\ UNCHANGED close_vars

\* except (AMQPError, ChannelError): self.client.stop()
ExceptAMQPStop ==
    /\ pc = "except"
    /\ Handler(exc) = "amqp"
    /\ pc' = "delay"
    /\ log' = Append(log, "stop")
    /\ UNCHANGED << self_reconnect_delay, exc, reconnect_delay, outcome, entry_delay,
                    was_consuming, calls, backoffs >>
    /\ UNCHANGED dispatch_vars
    /\ UNCHANGED action_vars
    /\ UNCHANGED close_vars

\* the handler sleeping for the counter as it was before the policy ran
ExceptAMQPDelay_SleepsStaleValue ==
    /\ pc = "delay"
    /\ self_reconnect_delay' = GetReconnectDelay(was_consuming, self_reconnect_delay)
    /\ reconnect_delay' = self_reconnect_delay
    /\ pc' = "sleep"
    /\ log' = log \o << "delay", "sleep" >>
    /\ backoffs' = IF was_consuming THEN 0 ELSE Min(backoffs + 1, MaxReconnectDelay + 1)
    /\ UNCHANGED << exc, outcome, entry_delay, was_consuming, calls >>
    /\ UNCHANGED dispatch_vars
    /\ UNCHANGED action_vars
    /\ UNCHANGED close_vars

\* reconnect_delay = self._get_reconnect_delay(); time.sleep(reconnect_delay)
\* is entered
ExceptAMQPDelay ==
    /\ pc = "delay"
    /\ self_reconnect_delay' = GetReconnectDelay(was_consuming, self_reconnect_delay)
    /\ reconnect_delay' = self_reconnect_delay'
    /\ pc' = "sleep"
    /\ log' = log \o << "delay", "sleep" >>
    /\ backoffs' = IF was_consuming THEN 0 ELSE Min(backoffs + 1, MaxReconnectDelay + 1)
    /\ UNCHANGED << exc, outcome, entry_delay, was_consuming, calls >>
    /\ UNCHANGED dispatch_vars
    /\ UNCHANGED action_vars
    /\ UNCHANGED close_vars

\* the while loop going round after the sleep: client.run is invoked again
SleepReturns_Retries ==
    /\ pc = "sleep"
    /\ pc' = "run"
    /\ log' = << "run" >>
    /\ UNCHANGED << self_reconnect_delay, exc, reconnect_delay, outcome, entry_delay,
                    was_consuming, calls, backoffs >>
    /\ UNCHANGED dispatch_vars
    /\ UNCHANGED action_vars
    /\ UNCHANGED close_vars

\* time.sleep returns; raise
SleepReturns ==
    /\ pc = "sleep"
    /\ Raise(exc, << "raise" >>)
    /\ UNCHANGED << self_reconnect_delay, reconnect_delay, entry_delay, was_consuming, calls, backoffs >>
    /\ UNCHANGED dispatch_vars
    /\ UNCHANGED action_vars
    /\ UNCHANGED close_vars

\* a KeyboardInterrupt arrives during time.sleep: it is raised inside the
\* except clause, where no clause of the same try statement catches it
SleepInterrupted ==
    /\ pc = "sleep"
    /\ Raise("KeyboardInterrupt", << "interrupted", "raise" >>)
    /\ UNCHANGED << self_reconnect_delay, reconnect_delay, entry_delay, was_consuming, calls, backoffs >>
    /\ UNCHANGED dispatch_vars
    /\ UNCHANGED action_vars
    /\ UNCHANGED close_vars

\* the clause re-raising without stopping the client
ExceptKeyboardInterrupt_NoStop ==
    /\ pc = "except"
    /\ Handler(exc) = "interrupt"
    /\ Raise("KeyboardInterrupt", << "raise" >>)
    /\ UNCHANGED << self_reconnect_delay, reconnect_delay, entry_delay, was_consuming, calls, backoffs >>
    /\ UNCHANGED dispatch_vars
    /\ UNCHANGED action_vars
    /\ UNCHANGED close_vars

\* except KeyboardInterrupt as e: self.client.stop(); raise KeyboardInterrupt from e
ExceptKeyboardInterrupt ==
    /\ pc = "except"
    /\ Handler(exc) = "interrupt"
    /\ Raise("KeyboardInterrupt", << "stop", "raise" >>)
    /\ UNCHANGED << self_reconnect_delay, reconnect_delay, entry_delay, was_consuming, calls, backoffs >>
    /\ UNCHANGED dispatch_vars
    /\ UNCHANGED action_vars
    /\ UNCHANGED close_vars

\* the clause re-raising without stopping the client
ExceptUnrecoverable_NoStop ==
    /\ pc = "except"
    /\ Handler(exc) = "unrecoverable"
    /\ Raise(exc, << "raise" >>)
    /\ UNCHANGED << self_reconnect_delay, reconnect_delay, entry_delay, was_consuming, calls, backoffs >>
    /\ UNCHANGED dispatch_vars
    /\ UNCHANGED action_vars
    /\ UNCHANGED close_vars

\* the clause stopping the client and leaving the loop instead of re-raising
ExceptUnrecoverable_Swallows ==
    /\ pc = "except"
    /\ Handler(exc) = "unrecoverable"
    /\ pc' = "idle"
    /\ outcome' = "returned"
    /\ log' = log \o << "stop", "return" >>
    /\ UNCHANGED << self_reconnect_delay, exc, reconnect_delay, entry_delay, was_consuming,
                    calls, backoffs >>
    /\ UNCHANGED dispatch_vars
    /\ UNCHANGED action_vars
    /\ UNCHANGED close_vars

\* the unrecoverable error treated like a transient one: stop, then back off
ExceptUnrecoverable_BacksOff ==
    /\ pc = "except"
    /\ Handler(exc) = "unrecoverable"
    /\ pc' = "delay"
    /\ log' = Append(log, "stop")
    /\ UNCHANGED << self_reconnect_delay, exc, reconnect_delay, outcome, entry_delay,
                    was_consuming, calls, backoffs >>
    /\ UNCHANGED dispatch_vars
    /\ UNCHANGED action_vars
    /\ UNCHANGED close_vars

\* except GXAgentUnrecoverableConnectionError: self.client.stop(); raise
ExceptUnrecoverable ==
    /\ pc = "except"
    /\ Handler(exc) = "unrecoverable"
    /\ Raise(exc, << "stop", "raise" >>)
    /\ UNCHANGED << self_reconnect_delay, reconnect_delay, entry_delay, was_consuming, calls, backoffs >>
    /\ UNCHANGED dispatch_vars
    /\ UNCHANGED action_vars
    /\ UNCHANGED close_vars

\* no except clause matches: the exception leaves the try statement as it is
Unhandled ==
    /\ pc = "except"
    /\ Handler(exc) = "unhandled"
    /\ Raise(exc, << "raise" >>)
    /\ UNCHANGED << self_reconnect_delay, reconnect_delay, entry_delay, was_consuming, calls, backoffs >>
    /\ UNCHANGED dispatch_vars
    /\ UNCHANGED action_vars
    /\ UNCHANGED close_vars

(* ------------------------ _on_message_handler ------------------------- *)

\* the closures _on_message_handler makes for one payload: what each calls
\* when invoked, and the arguments bound into it
AckCallback(delivery_tag) ==
    [fn |-> "ack", delivery_tag |-> delivery_tag, requeue |-> FALSE, delay |-> 0]

NackCallback(delivery_tag, requeue) ==
    [fn |-> "nack", delivery_tag |-> delivery_tag, requeue |-> requeue, delay |-> 0]

RedeliverPartial(delivery_tag, requeue, delay) ==
    [fn |-> "_redeliver_message", delivery_tag |-> delivery_tag, requeue |-> requeue,
     delay |-> delay]

\* the ack callback bound to the tag of the first delivery instead of the
\* payload's own
BuildEventContext_AckOfFirstDelivery(p, event) ==
    [event |-> event,
     correlation_id |-> p.correlation_id,
     processed_successfully |-> AckCallback(1),
     processed_with_failures |-> NackCallback(p.delivery_tag, FALSE),
     redeliver_message |-> RedeliverPartial(p.delivery_tag, TRUE, RedeliverDelay)]

\* the nack callback obtained with requeue=True
BuildEventContext_NackRequeues(p, event) ==
    [event |-> event,
     correlation_id |-> p.correlation_id,
     processed_successfully |-> AckCallback(p.delivery_tag),
     processed_with_failures |-> NackCallback(p.delivery_tag, TRUE),
     redeliver_message |-> RedeliverPartial(p.delivery_tag, TRUE, RedeliverDelay)]

\* lines 127-145: the EventContext of a payload whose body parsed to event
BuildEventContext(p, event) ==
    [event |-> event,
     correlation_id |-> p.correlation_id,
     processed_successfully |-> AckCallback(p.delivery_tag),
     processed_with_failures |-> NackCallback(p.delivery_tag, FALSE),
     redeliver_message |-> RedeliverPartial(p.delivery_tag, TRUE, RedeliverDelay)]

\* the client delivers a message: it calls the callback with the payload
Deliver(body, correlation_id) ==
    /\ pc = "run"
    /\ cur = 0
    /\ next_tag <= MaxDeliveries
    /\ cur' = next_tag
    /\ next_tag' = next_tag + 1
    /\ payload' = [payload EXCEPT ![next_tag] =
                      [body |-> body, delivery_tag |-> next_tag,
                       correlation_id |-> correlation_id]]
    /\ msg' = [msg EXCEPT ![next_tag] = "parsing"]
    /\ UNCHANGED << handled, obtained, returned >>
    /\ UNCHANGED consume_vars
    /\ UNCHANGED action_vars
    /\ UNCHANGED close_vars

\* the body parses: the callbacks and the EventContext are built and
\* on_message is called with it
OnMessageHandlerCalls ==
    /\ cur # 0
    /\ msg[cur] = "parsing"
    /\ ParseEventFrom(payload[cur].body).ok
    /\ LET event_context == BuildEventContext(payload[cur],
                                               ParseEventFrom(payload[cur].body).event)
       IN  /\ obtained' = obtained \cup {event_context.processed_successfully,
                                         event_context.processed_with_failures}
           /\ handled' = Append(handled, [of |-> cur, context |-> event_context])
    /\ msg' = [msg EXCEPT ![cur] = "handling"]
    /\ UNCHANGED << next_tag, cur, payload, returned >>
    /\ UNCHANGED consume_vars
    /\ UNCHANGED action_vars
    /\ UNCHANGED close_vars

\* the handler rejecting the delivery itself when the body does not parse
OnMessageHandlerParseFails_Nacks ==
    /\ cur # 0
    /\ msg[cur] = "parsing"
    /\ ~ParseEventFrom(payload[cur].body).ok
    /\ msg' = [msg EXCEPT ![cur] = "parse_failed"]
    /\ cur' = 0
    /\ pc' = "except"
    /\ exc' = "ParseError"
    /\ broker' = ClientNack(broker, payload[cur].delivery_tag, FALSE)
    /\ UNCHANGED << next_tag, payload, handled, obtained, returned >>
    /\ UNCHANGED << self_reconnect_delay, reconnect_delay, outcome, log, entry_delay,
                    was_consuming, calls, backoffs >>
    /\ UNCHANGED << invoked, coros >>
    /\ UNCHANGED close_vars

\* the callbacks obtained from the client before the body is parsed
OnMessageHandlerParseFails_ObtainsCallbacks ==
    /\ cur # 0
    /\ msg[cur] = "parsing"
    /\ ~ParseEventFrom(payload[cur].body).ok
    /\ obtained' = obtained \cup {AckCallback(payload[cur].delivery_tag),
                                  NackCallback(payload[cur].delivery_tag, FALSE)}
    /\ msg' = [msg EXCEPT ![cur] = "parse_failed"]
    /\ cur' = 0
    /\ pc' = "except"
    /\ exc' = "ParseError"
    /\ UNCHANGED << next_tag, payload, handled, returned >>
    /\ UNCHANGED << self_reconnect_delay, reconnect_delay, outcome, log, entry_delay,
                    was_consuming, calls, backoffs >>
    /\ UNCHANGED action_vars
    /\ UNCHANGED close_vars

\* parse_event_from raises: the exception leaves _on_message_handler and, with
\* nothing in the client's callback path modelled as catching it, client.run
OnMessageHandlerParseFails ==
    /\ cur # 0
    /\ msg[cur] = "parsing"
    /\ ~ParseEventFrom(payload[cur].body).ok
    /\ msg' = [msg EXCEPT ![cur] = "parse_failed"]
    /\ cur' = 0
    /\ pc' = "except"
    /\ exc' = "ParseError"
    /\ UNCHANGED << next_tag, payload, handled, obtained, returned >>
    /\ UNCHANGED << self_reconnect_delay, reconnect_delay, outcome, log, entry_delay,
                    was_consuming, calls, backoffs >>
    /\ UNCHANGED action_vars
    /\ UNCHANGED close_vars

\* the EventContext that was passed to on_message for delivery t
ContextOf(t) == handled[CHOOSE i \in 1..Len(handled) : handled[i].of = t].context

\* the caller's on_message: the result it returns for an EventContext
OnMessage(event_context) == "result_for_" \o event_context.correlation_id

\* _on_message_handler returning None whatever on_message returned
OnMessageHandlerReturns_DropsResult ==
    /\ cur # 0
    /\ msg[cur] = "handling"
    /\ msg' = [msg EXCEPT ![cur] = "dispatched"]
    /\ cur' = 0
    /\ returned' = [returned EXCEPT ![cur] = "None"]
    /\ UNCHANGED << next_tag, payload, handled, obtained >>
    /\ UNCHANGED consume_vars
    /\ UNCHANGED action_vars
    /\ UNCHANGED close_vars

\* on_message returns and _on_message_handler returns its result
OnMessageHandlerReturns ==
    /\ cur # 0
    /\ msg[cur] = "handling"
    /\ msg' = [msg EXCEPT ![cur] = "dispatched"]
    /\ cur' = 0
    /\ returned' = [returned EXCEPT ![cur] = OnMessage(ContextOf(cur))]
    /\ UNCHANGED << next_tag, payload, handled, obtained >>
    /\ UNCHANGED consume_vars
    /\ UNCHANGED action_vars
    /\ UNCHANGED close_vars

(* ------------------------ EventContext actions ------------------------ *)

\* a new _redeliver_message coroutine with the arguments of partial c,
\* suspended in asyncio.sleep(delay); of is the message whose EventContext
\* held the partial
NewCoroutine(c, of) ==
    [delivery_tag |-> c.delivery_tag, requeue |-> c.requeue, delay |-> c.delay,
     elapsed |-> 0, state |-> "sleeping", of |-> of]

\* a closure that reaches the client only for the first action invoked on a
\* delivery
CallClosure_FirstActionOnly(c, of) ==
    LET first == \A f \in ActionFields : invoked[of][f] = 0
    IN  /\ broker' = CASE first /\ c.fn = "ack" -> ClientAck(broker, c.delivery_tag)
                        [] first /\ c.fn = "nack" -> ClientNack(broker, c.delivery_tag, c.requeue)
                        [] OTHER -> broker
        /\ coros' = IF first /\ c.fn = "_redeliver_message"
                    THEN Append(coros, NewCoroutine(c, of))
                    ELSE coros

\* calling a closure: the threadsafe callbacks reach the client's ack and nack
\* with the arguments bound into them; the partial starts a coroutine
CallClosure(c, of) ==
    /\ broker' = CASE c.fn = "ack" -> ClientAck(broker, c.delivery_tag)
                   [] c.fn = "nack" -> ClientNack(broker, c.delivery_tag, c.requeue)
                   [] OTHER -> broker
    /\ coros' = IF c.fn = "_redeliver_message" THEN Append(coros, NewCoroutine(c, of))
                ELSE coros

InvokedOf(t) ==
    invoked[t]["processed_successfully"] + invoked[t]["processed_with_failures"]
        + invoked[t]["redeliver_message"]

RECURSIVE InvokedUpTo(_)
InvokedUpTo(t) == IF t = 0 THEN 0 ELSE InvokedOf(t) + InvokedUpTo(t - 1)

TotalInvoked == InvokedUpTo(MaxDeliveries)

\* the caller (the handler itself, or a thread it handed the EventContext to)
\* invokes one action of an EventContext it was given
Invoke(i, field) ==
    /\ TotalInvoked < MaxInvocations
    /\ i \in 1..Len(handled)
    /\ CallClosure(handled[i].context[field], handled[i].of)
    /\ invoked' = [invoked EXCEPT ![handled[i].of][field] = @ + 1]
    /\ UNCHANGED consume_vars
    /\ UNCHANGED dispatch_vars
    /\ UNCHANGED close_vars

\* time passes for every coroutine suspended in asyncio.sleep
Tick ==
    /\ \E k \in 1..Len(coros) : coros[k].state = "sleeping" /\ coros[k].elapsed < coros[k].delay
    /\ coros' = [k \in 1..Len(coros) |->
                    IF coros[k].state = "sleeping" /\ coros[k].elapsed < coros[k].delay
                    THEN [coros[k] EXCEPT !.elapsed = @ + 1]
                    ELSE coros[k]]
    /\ UNCHANGED << broker, invoked >>
    /\ UNCHANGED consume_vars
    /\ UNCHANGED dispatch_vars
    /\ UNCHANGED close_vars

\* the coroutine going on without awaiting the sleep
SleepOver_NotAwaited(c) == TRUE

\* _redeliver_message after the await: asyncio.sleep(delay) is over once delay
\* has elapsed
SleepOver(c) == c.elapsed >= c.delay

\* return self.client.nack(delivery_tag=delivery_tag, requeue=requeue)
RedeliverMessageNacks(k) ==
    /\ k \in 1..Len(coros)
    /\ coros[k].state = "sleeping"
    /\ SleepOver(coros[k])
    /\ broker' = ClientNack(broker, coros[k].delivery_tag, coros[k].requeue)
    /\ coros' = [coros EXCEPT ![k].state = "done"]
    /\ UNCHANGED invoked
    /\ UNCHANGED consume_vars
    /\ UNCHANGED dispatch_vars
    /\ UNCHANGED close_vars

(* -------------------------------- close ------------------------------- *)

\* close returning without stopping the client
Close_NoStop ==
    /\ closes < MaxCloseCalls
    /\ closes' = closes + 1
    /\ UNCHANGED close_stops
    /\ UNCHANGED consume_vars
    /\ UNCHANGED dispatch_vars
    /\ UNCHANGED action_vars

\* close starting the backoff over
Close_ResetsDelay ==
    /\ closes < MaxCloseCalls
    /\ closes' = closes + 1
    /\ close_stops' = close_stops + 1
    /\ self_reconnect_delay' = InitialReconnectDelay
    /\ UNCHANGED << pc, exc, reconnect_delay, outcome, log, entry_delay, was_consuming,
                    calls, backoffs >>
    /\ UNCHANGED dispatch_vars
    /\ UNCHANGED action_vars

\* Subscriber.close: self.client.stop()
Close ==
    /\ closes < MaxCloseCalls
    /\ closes' = closes + 1
    /\ close_stops' = close_stops + 1
    /\ UNCHANGED consume_vars
    /\ UNCHANGED dispatch_vars
    /\ UNCHANGED action_vars

(* ---------------------------- specification --------------------------- *)

BrokerErrors ==
    {"AuthenticationError", "AMQPConnectionError", "ChannelError",
     "GXAgentUnrecoverableConnectionError"}

Next ==
    \/ Consume
    \/ RunReturns
    \/ \E kind \in BrokerErrors, wc \in BOOLEAN : RunRaises(kind, wc)
    \/ RunInterrupted
    \/ ExceptAuthentication
    \/ ExceptAMQPStop
    \/ ExceptAMQPDelay
    \/ SleepReturns
    \/ SleepInterrupted
    \/ ExceptKeyboardInterrupt
    \/ ExceptUnrecoverable
    \/ Unhandled
    \/ \E body \in Bodies, correlation_id \in CorrelationIds : Deliver(body, correlation_id)
    \/ OnMessageHandlerCalls
    \/ OnMessageHandlerParseFails
    \/ OnMessageHandlerReturns
    \/ \E i \in 1..MaxDeliveries, field \in ActionFields : Invoke(i, field)
    \/ Tick
    \/ \E k \in 1..MaxInvocations : RedeliverMessageNacks(k)
    \/ Close

Spec == Init /\ [][Next]_vars

\* consume alone, called any number of times: no message is delivered
NextConsume ==
    \/ ConsumeAgain
    \/ RunReturns
    \/ \E kind \in BrokerErrors, wc \in BOOLEAN : RunRaises(kind, wc)
    \/ RunInterrupted
    \/ ExceptAuthentication
    \/ ExceptAMQPStop
    \/ ExceptAMQPDelay
    \/ SleepReturns
    \/ SleepInterrupted
    \/ ExceptKeyboardInterrupt
    \/ ExceptUnrecoverable

SpecConsume == Init /\ [][NextConsume]_vars

\* consume and the dispatch of deliveries; no EventContext action is invoked
NextDispatch ==
    \/ Consume
    \/ RunReturns
    \/ \E kind \in BrokerErrors, wc \in BOOLEAN : RunRaises(kind, wc)
    \/ RunInterrupted
    \/ ExceptAuthentication
    \/ ExceptAMQPStop
    \/ ExceptAMQPDelay
    \/ SleepReturns
    \/ SleepInterrupted
    \/ ExceptKeyboardInterrupt
    \/ ExceptUnrecoverable
    \/ Unhandled
    \/ \E body \in Bodies, correlation_id \in CorrelationIds : Deliver(body, correlation_id)
    \/ OnMessageHandlerCalls
    \/ OnMessageHandlerParseFails
    \/ OnMessageHandlerReturns

SpecDispatch == Init /\ [][NextDispatch]_vars

\* dispatch and the EventContext actions under a client whose run only ever
\* ends by returning or by a parse failure leaving the callback
NextActions ==
    \/ Consume
    \/ RunReturns
    \/ Unhandled
    \/ \E body \in Bodies, correlation_id \in CorrelationIds : Deliver(body, correlation_id)
    \/ OnMessageHandlerCalls
    \/ OnMessageHandlerParseFails
    \/ OnMessageHandlerReturns
    \/ \E i \in 1..MaxDeliveries, field \in ActionFields : Invoke(i, field)
    \/ Tick
    \/ \E k \in 1..MaxInvocations : RedeliverMessageNacks(k)

SpecActions == Init /\ [][NextActions]_vars

\* the steps inside one call of consume: client.run ending, the except
\* clauses and time.sleep ending
CallStep ==
    \/ RunReturns
    \/ \E kind \in BrokerErrors, wc \in BOOLEAN : RunRaises(kind, wc)
    \/ RunInterrupted
    \/ ExceptAuthentication
    \/ ExceptAMQPStop
    \/ ExceptAMQPDelay
    \/ SleepReturns
    \/ SleepInterrupted
    \/ ExceptKeyboardInterrupt
    \/ ExceptUnrecoverable

\* consume alone where client.run and time.sleep always end and the thread
\* that called consume keeps running
SpecConsumeFair == SpecConsume /\ WF_vars(CallStep)

\* consume, the dispatch of deliveries and close, in any order
NextClose ==
    \/ NextDispatch
    \/ Close

SpecClose == Init /\ [][NextClose]_vars

\* consume called any number of times, the dispatch of deliveries and close,
\* in any order; the deliveries differ in their bodies only
NextLifecycle ==
    \/ ConsumeAgain
    \/ RunReturns
    \/ \E kind \in BrokerErrors, wc \in BOOLEAN : RunRaises(kind, wc)
    \/ RunInterrupted
    \/ ExceptAuthentication
    \/ ExceptAMQPStop
    \/ ExceptAMQPDelay
    \/ SleepReturns
    \/ SleepInterrupted
    \/ ExceptKeyboardInterrupt
    \/ ExceptUnrecoverable
    \/ Unhandled
    \/ \E body \in Bodies : Deliver(body, "corr_a")
    \/ OnMessageHandlerCalls
    \/ OnMessageHandlerParseFails
    \/ OnMessageHandlerReturns
    \/ Close

SpecLifecycle == Init /\ [][NextLifecycle]_vars

(* ------------------------------- claims ------------------------------- *)

TransientKinds == {"AMQPConnectionError", "ChannelError"}

\* C1: a transient protocol failure of client.run makes consume call stop(),
\* then evaluate the reconnect-delay policy, then sleep for the value the
\* policy returned (the counter after the update), and only then re-raise
\* the failure: the events occur in the order stop, sleep, raise.
C1_TransientStopSleepRaise ==
    /\ pc = "delay" => exc \in TransientKinds /\ log = << "run", "stop" >>
    /\ pc = "sleep" =>
          /\ exc \in TransientKinds
          /\ log = << "run", "stop", "delay", "sleep" >>
          /\ reconnect_delay = self_reconnect_delay
    /\ outcome \in TransientKinds =>
          /\ outcome = exc
          /\ log = << "run", "stop", "delay", "sleep", "raise" >>
          /\ reconnect_delay = self_reconnect_delay
    /\ (pc = "idle" /\ exc \in TransientKinds /\ outcome # "KeyboardInterrupt") =>
          outcome = exc

C1_Witness ==
    /\ outcome = "ChannelError"
    /\ entry_delay = 2
    /\ reconnect_delay = 3
    /\ log = << "run", "stop", "delay", "sleep", "raise" >>

\* C2: the counter starts at 0; an evaluation of the policy with
\* was_consuming false sets it to min(previous + 1, 30), one with
\* was_consuming true sets it to 0 whatever it was; the delay returned is the
\* stored counter after the update.
C2_ReconnectDelayPolicy ==
    /\ self_reconnect_delay = 0
    /\ [][pc = "delay" =>
            /\ was_consuming => self_reconnect_delay' = 0
            /\ ~was_consuming =>
                  self_reconnect_delay' =
                      (IF self_reconnect_delay + 1 <= 30 THEN self_reconnect_delay + 1 ELSE 30)
            /\ reconnect_delay' = self_reconnect_delay']_vars

C2_Witness ==
    /\ pc = "sleep"
    /\ ~was_consuming
    /\ entry_delay = 30
    /\ self_reconnect_delay = 30
    /\ reconnect_delay = 30

\* C3: an authentication failure of client.run makes consume call stop()
\* exactly once and re-raise the same kind of failure, without sleeping and
\* without evaluating the reconnect-delay policy, although an authentication
\* failure is also an AMQPError.
C3_AuthenticationStopsAndRaises ==
    /\ "AMQPError" \in ClassesOf("AuthenticationError")
    /\ pc \in {"delay", "sleep"} => exc # "AuthenticationError"
    /\ (pc = "idle" /\ exc = "AuthenticationError") =>
          /\ outcome = "AuthenticationError"
          /\ log = << "run", "stop", "raise" >>
          /\ reconnect_delay = NoDelay
          /\ self_reconnect_delay = entry_delay

C3_Witness ==
    /\ outcome = "AuthenticationError"
    /\ exc = "AuthenticationError"
    /\ entry_delay = 2
    /\ self_reconnect_delay = 2

\* the call has ended by an exception leaving consume
Raised == pc = "idle" /\ outcome \notin {"none", "returned"}

\* stop() was called on the client before the exception left consume
StoppedBeforeRaise ==
    \E i \in 1..Len(log) : log[i] = "stop" /\ i < Len(log) /\ log[Len(log)] = "raise"

\* C4 as stated: whatever error surfaces from client.run (a parse failure
\* leaving the dispatch included), stop() has been called before the error
\* leaves consume, and no error is swallowed.
C4_Original ==
    /\ Raised => StoppedBeforeRaise
    /\ (pc = "idle" /\ exc # "none") => Raised

\* C4 amended: the errors consume has an except clause for (authentication,
\* transient protocol, interrupt, unrecoverable-connection) leave consume only
\* after stop(); an error of any other class, such as a parse failure leaving
\* the dispatch, leaves consume as it is without stop() having been called;
\* no error is swallowed.
C4_HandledErrorsStopFirst ==
    /\ (Raised /\ Handler(exc) # "unhandled") => StoppedBeforeRaise
    /\ (Raised /\ Handler(exc) = "unhandled") =>
          outcome = exc /\ log = << "run", "raise" >>
    /\ (pc = "idle" /\ exc # "none") => Raised

C4_Witness ==
    /\ outcome = "ParseError"
    /\ msg[1] = "dispatched"
    /\ msg[2] = "parse_failed"
    /\ log = << "run", "raise" >>

\* C5: consume returns normally if and only if client.run returned without
\* error; every raising outcome of run makes consume raise, and run is not
\* entered again within the call.
C5_ReturnsOnlyOnCleanRun ==
    /\ outcome = "returned" => exc = "none"
    /\ (pc = "idle" /\ calls > 0 /\ exc = "none") => outcome = "returned"
    /\ (pc = "idle" /\ exc # "none") => Raised
    /\ pc = "run" => exc = "none" /\ outcome = "none"

C5_Witness ==
    /\ outcome = "returned"
    /\ calls = 2
    /\ msg[1] = "dispatched"

\* C6: when client.run returns without error consume returns without taking
\* a failure path: stop() is not called, nothing is slept and the
\* reconnect-delay counter is as it was on entry.
C6_CleanReturnTouchesNothing ==
    outcome = "returned" =>
        /\ log = << "run", "return" >>
        /\ reconnect_delay = NoDelay
        /\ self_reconnect_delay = entry_delay

C6_Witness ==
    /\ outcome = "returned"
    /\ self_reconnect_delay = 2
    /\ log = << "run", "return" >>

\* C10: a KeyboardInterrupt arriving inside client.run or inside the backoff
\* sleep leaves consume as a KeyboardInterrupt (not as the transient failure),
\* and only after stop() has been called on the client.
C10_InterruptStopsFirst ==
    /\ (pc = "idle" /\ exc = "KeyboardInterrupt") =>
          outcome = "KeyboardInterrupt" /\ log = << "run", "stop", "raise" >>
    /\ (pc = "idle" /\ \E i \in 1..Len(log) : log[i] = "interrupted") =>
          /\ outcome = "KeyboardInterrupt"
          /\ exc \in TransientKinds
          /\ log = << "run", "stop", "delay", "sleep", "interrupted", "raise" >>
    /\ outcome = "KeyboardInterrupt" => StoppedBeforeRaise

C10_Witness ==
    /\ outcome = "KeyboardInterrupt"
    /\ exc = "ChannelError"
    /\ reconnect_delay = 1
    /\ StoppedBeforeRaise

\* the EventContexts passed to on_message so far, by message
ContextsOf(t) == {i \in 1..Len(handled) : handled[i].of = t}

\* the _redeliver_message coroutines started from an action of message t
CoroutinesOf(t) == {k \in 1..Len(coros) : coros[k].of = t}

DoneCoroutinesOf(t) == {k \in CoroutinesOf(t) : coros[k].state = "done"}

\* C7: in every interleaving of deliveries and action invocations, the three
\* actions of each EventContext are distinct callables bound to the delivery
\* tag of its own message, and the acks and nacks the client has issued for a
\* delivery tag are exactly those caused by invoking actions of that tag's own
\* message: invoking an action of message A never changes what the broker
\* holds for another message B.
C7_ActionsBoundToOwnDelivery ==
    /\ \A i \in 1..Len(handled) :
          LET c == handled[i].context
              t == handled[i].of
          IN  /\ payload[t].delivery_tag = t
              /\ c.processed_successfully.delivery_tag = t
              /\ c.processed_with_failures.delivery_tag = t
              /\ c.redeliver_message.delivery_tag = t
              /\ Cardinality({c.processed_successfully, c.processed_with_failures,
                              c.redeliver_message}) = 3
              /\ ContextsOf(t) = {i}
    /\ \A k \in 1..Len(coros) : coros[k].delivery_tag = coros[k].of
    /\ \A t \in Tags :
          /\ broker[t].ack = invoked[t]["processed_successfully"]
          /\ broker[t].nack + broker[t].nack_requeue =
                invoked[t]["processed_with_failures"] + Cardinality(DoneCoroutinesOf(t))
          /\ Cardinality(CoroutinesOf(t)) = invoked[t]["redeliver_message"]

C7_Witness ==
    /\ Len(handled) = 2
    /\ msg[1] = "dispatched"
    /\ msg[2] = "handling"
    /\ invoked[1]["processed_successfully"] = 1
    /\ invoked[2]["processed_with_failures"] = 1
    /\ broker[1] = [ack |-> 1, nack |-> 0, nack_requeue |-> 0]
    /\ broker[2] = [ack |-> 0, nack |-> 1, nack_requeue |-> 0]

\* C8: a redelivery started by redeliver_message waits the delay of 3 units
\* and only then calls nack with requeue=True on the delivery tag of the
\* message it came from, once: the requeueing nacks issued for a tag are
\* exactly those of its coroutines that have waited the whole delay.
C8_RedeliverNacksAfterDelay ==
    /\ \A k \in 1..Len(coros) :
          /\ coros[k].delay = 3
          /\ coros[k].requeue = TRUE
          /\ coros[k].delivery_tag = payload[coros[k].of].delivery_tag
          /\ coros[k].elapsed \in 0..3
          /\ coros[k].state = "done" => coros[k].elapsed = 3
    /\ \A t \in Tags :
          broker[t].nack_requeue =
              Cardinality({k \in 1..Len(coros) :
                              coros[k].delivery_tag = t /\ coros[k].state = "done"})

C8_Witness ==
    /\ Len(coros) = 2
    /\ coros[1].state = "done"
    /\ coros[1].elapsed = 3
    /\ coros[2].state = "sleeping"
    /\ coros[2].elapsed = 2
    /\ coros[1].delivery_tag = 1
    /\ coros[2].delivery_tag = 1
    /\ broker[1].nack_requeue = 1

\* the dispatch of message t has begun and _on_message_handler has not
\* returned
DispatchInProgress(t) == msg[t] \in {"parsing", "handling"}

ActedOn(t) ==
    \/ InvokedOf(t) > 0
    \/ broker[t] # [ack |-> 0, nack |-> 0, nack_requeue |-> 0]
    \/ CoroutinesOf(t) # {}

\* C9 as stated: no action of a message is invoked while the dispatch of
\* that message is still in progress.
C9_Original ==
    \A t \in Tags : DispatchInProgress(t) => InvokedOf(t) = 0

\* C9 amended: an action of a message is invoked, and an ack or nack issued
\* for it, only after the dispatch has parsed the body, built the
\* EventContext and called on_message with it; it may happen while
\* on_message is still running, before the dispatch completes.
C9_ActionsOnlyAfterHandlerCalled ==
    \A t \in Tags :
        ActedOn(t) =>
            /\ ContextsOf(t) # {}
            /\ msg[t] \notin {"undelivered", "parsing", "parse_failed"}

C9_Witness ==
    /\ msg[1] = "handling"
    /\ cur = 1
    /\ invoked[1]["processed_successfully"] = 1
    /\ broker[1].ack = 1

\* C11: every call of close makes exactly one call of client.stop(), whatever
\* the Subscriber is doing (never used, inside consume, after a clean return,
\* after a failure), and changes nothing else: the reconnect-delay counter
\* and all other state stay as they were.
C11_CloseStopsExactlyOnce ==
    /\ [](close_stops = closes)
    /\ [](closes < MaxCloseCalls => ENABLED Close)
    /\ [][closes' # closes =>
              /\ closes' = closes + 1
              /\ close_stops' = close_stops + 1
              /\ self_reconnect_delay' = self_reconnect_delay
              /\ UNCHANGED << consume_vars, dispatch_vars, action_vars >>]_vars

C11_Witness ==
    /\ closes = 2
    /\ close_stops = 2
    /\ pc = "idle"
    /\ outcome = "ChannelError"
    /\ self_reconnect_delay = 1

RunInvocations == Cardinality({i \in DOMAIN log : log[i] = "run"})

\* C12: one call of consume invokes client.run exactly once and never again:
\* run is only ever entered by a new call of consume, after a transient
\* failure and its sleep the failure is raised, and every call of consume
\* ends (returns or raises) provided client.run and time.sleep end.
C12_RunOnceThenTerminates ==
    /\ [](calls > 0 => RunInvocations = 1)
    /\ [][pc' = "run" => pc \in {"idle", "run"}]_vars
    /\ [][pc = "sleep" /\ pc' # "sleep" => pc' = "idle" /\ outcome' \in {exc, "KeyboardInterrupt"}]_vars
    /\ (pc # "idle") ~> (pc = "idle")

C12_Witness ==
    /\ pc = "idle"
    /\ calls = 2
    /\ outcome = "AMQPConnectionError"
    /\ reconnect_delay = 2
    /\ RunInvocations = 1

\* C13: a delivery whose body parses has on_message called exactly once,
\* inside the delivery callback, with an EventContext holding the parsed
\* body and the payload's correlation_id; _on_message_handler returns what
\* on_message returned; and every ack, nack and redelivery coroutine of a
\* delivery comes from an invocation made by the caller, none from the
\* dispatch itself.
C13_DispatchCallsHandlerOnce ==
    \A t \in Tags :
        /\ msg[t] \in {"handling", "dispatched"} =>
              /\ ParseEventFrom(payload[t].body).ok
              /\ Cardinality(ContextsOf(t)) = 1
              /\ ContextOf(t).event = ParseEventFrom(payload[t].body).event
              /\ ContextOf(t).correlation_id = payload[t].correlation_id
        /\ msg[t] = "handling" => cur = t /\ pc = "run" /\ returned[t] = NoResult
        /\ msg[t] = "dispatched" => returned[t] = OnMessage(ContextOf(t))
        /\ msg[t] \in {"undelivered", "parsing"} => ContextsOf(t) = {}
        /\ broker[t].ack = invoked[t]["processed_successfully"]
        /\ broker[t].nack = invoked[t]["processed_with_failures"]
        /\ Cardinality(CoroutinesOf(t)) = invoked[t]["redeliver_message"]

C13_Witness ==
    /\ msg[1] = "dispatched"
    /\ payload[1].body = "event"
    /\ returned[1] = "result_for_corr_a"
    /\ msg[2] = "handling"
    /\ payload[2].correlation_id = "corr_b"
    /\ invoked[1]["processed_successfully"] = 1

ObtainedFor(t) == {c \in obtained : c.delivery_tag = t}

\* C14: when parse_event_from fails on a delivery, the exception leaves
\* _on_message_handler as it is: no callback was obtained from the client for
\* that delivery tag, no EventContext was built, on_message was not called,
\* and no ack, nack or redelivery is ever issued for that tag.
C14_ParseFailurePropagatesUntouched ==
    /\ [](\A t \in Tags :
            msg[t] = "parse_failed" =>
                /\ ~ParseEventFrom(payload[t].body).ok
                /\ ObtainedFor(t) = {}
                /\ ContextsOf(t) = {}
                /\ returned[t] = NoResult
                /\ InvokedOf(t) = 0
                /\ CoroutinesOf(t) = {}
                /\ broker[t] = [ack |-> 0, nack |-> 0, nack_requeue |-> 0])
    /\ [][\A t \in Tags :
            (msg[t] = "parsing" /\ ~ParseEventFrom(payload[t].body).ok /\ msg'[t] # "parsing") =>
                /\ msg'[t] = "parse_failed"
                /\ exc' = "ParseError"
                /\ pc' = "except"]_vars
    /\ [][(pc = "except" /\ exc = "ParseError" /\ pc' # "except") =>
                outcome' = "ParseError" /\ pc' = "idle"]_vars

C14_Witness ==
    /\ msg[1] = "dispatched"
    /\ invoked[1]["processed_with_failures"] = 1
    /\ msg[2] = "parse_failed"
    /\ pc = "idle"
    /\ outcome = "ParseError"
    /\ obtained = {AckCallback(1), NackCallback(1, FALSE)}

\* C15: whatever consume, dispatch and close have done, with any failures and
\* any was_consuming values, self._reconnect_delay is an integer from 0 to 30
\* and the value passed to time.sleep is at most 30.
C15_CounterAndSleepWithinBounds ==
    /\ self_reconnect_delay \in 0..MaxReconnectDelay
    /\ entry_delay \in 0..MaxReconnectDelay
    /\ reconnect_delay \in {NoDelay} \cup (0..MaxReconnectDelay)
    /\ pc = "sleep" => reconnect_delay \in 0..MaxReconnectDelay
    /\ "sleep" \in {log[i] : i \in DOMAIN log} => reconnect_delay \in 0..MaxReconnectDelay

C15_Witness ==
    /\ pc = "sleep"
    /\ entry_delay = MaxReconnectDelay
    /\ self_reconnect_delay = MaxReconnectDelay
    /\ reconnect_delay = MaxReconnectDelay
    /\ backoffs = MaxReconnectDelay + 1
    /\ closes = 1
    /\ msg[1] = "dispatched"
    /\ msg[2] = "parse_failed"

\* C16: self._reconnect_delay changes only in the step that evaluates
\* _get_reconnect_delay in the except clause of a transient failure; a clean
\* return, an authentication failure, an interrupt, an unrecoverable
\* connection error, an unhandled exception, the dispatch of a delivery, the
\* invocation of any action, a finishing redelivery coroutine and close all
\* leave it as it was.
C16_CounterMutatedOnlyByDelayPolicy ==
    /\ [][self_reconnect_delay' # self_reconnect_delay =>
              /\ pc = "delay"
              /\ pc' = "sleep"
              /\ exc \in TransientKinds
              /\ self_reconnect_delay' = GetReconnectDelay(was_consuming, self_reconnect_delay)]_vars
    /\ [][((pc = "run" \/ pc = "except") /\ pc' = "idle") =>
              self_reconnect_delay' = entry_delay]_vars
    /\ [][(closes' # closes \/ msg' # msg \/ handled' # handled \/ invoked' # invoked
               \/ broker' # broker \/ coros' # coros)
              => self_reconnect_delay' = self_reconnect_delay]_vars

C16_Witness ==
    /\ self_reconnect_delay = 1
    /\ entry_delay = 1
    /\ calls = 2
    /\ pc = "idle"
    /\ outcome = "AuthenticationError"
    /\ closes = 1
    /\ msg[1] = "dispatched"
    /\ invoked[1]["redeliver_message"] = 1
    /\ broker[1].nack_requeue = 1

ImmediateKinds == {"KeyboardInterrupt", "GXAgentUnrecoverableConnectionError"}

StopsIn(events) == Cardinality({i \in DOMAIN events : events[i] = "stop"})

\* C17: when client.run raises GXAgentUnrecoverableConnectionError or
\* KeyboardInterrupt, consume calls stop() exactly once, evaluates no delay
\* and does not sleep, and raises at once: the unrecoverable error itself,
\* or a KeyboardInterrupt for the interrupt; the counter is not touched.
C17_UnrecoverableAndInterruptStopOnceNoSleep ==
    /\ (pc \in {"delay", "sleep"}) => exc \notin ImmediateKinds
    /\ (pc = "except" /\ exc \in ImmediateKinds) => log = << "run" >>
    /\ (pc = "idle" /\ exc \in ImmediateKinds) =>
          /\ outcome = exc
          /\ log = << "run", "stop", "raise" >>
          /\ StopsIn(log) = 1
          /\ reconnect_delay = NoDelay
          /\ self_reconnect_delay = entry_delay

C17_Witness ==
    /\ pc = "idle"
    /\ outcome = "GXAgentUnrecoverableConnectionError"
    /\ calls = 2
    /\ entry_delay = 3
    /\ self_reconnect_delay = 3
    /\ log = << "run", "stop", "raise" >>

\* C18: processed_with_failures of every EventContext is a nack without
\* requeue, processed_successfully is an ack, and a nack with requeue is
\* only ever issued through redeliver_message: every requeueing nack of a
\* delivery is a finished _redeliver_message coroutine of that delivery.
C18_OnlyRedeliverRequeues ==
    /\ \A i \in 1..Len(handled) :
          /\ handled[i].context.processed_successfully.fn = "ack"
          /\ handled[i].context.processed_with_failures.fn = "nack"
          /\ handled[i].context.processed_with_failures.requeue = FALSE
          /\ handled[i].context.redeliver_message.fn = "_redeliver_message"
          /\ handled[i].context.redeliver_message.requeue = TRUE
    /\ \A c \in obtained : c.requeue = FALSE
    /\ \A k \in 1..Len(coros) : coros[k].requeue = TRUE
    /\ \A t \in Tags :
          /\ broker[t].ack = invoked[t]["processed_successfully"]
          /\ broker[t].nack = invoked[t]["processed_with_failures"]
          /\ broker[t].nack_requeue = Cardinality(DoneCoroutinesOf(t))
          /\ broker[t].nack_requeue <= invoked[t]["redeliver_message"]

C18_Witness ==
    /\ invoked[1]["processed_with_failures"] = 1
    /\ broker[1] = [ack |-> 0, nack |-> 1, nack_requeue |-> 0]
    /\ invoked[2]["redeliver_message"] = 1
    /\ broker[2] = [ack |-> 0, nack |-> 0, nack_requeue |-> 1]

\* C19: the counter lives on the Subscriber across calls of consume and no
\* clean return or fatal failure resets it: the k-th transient failure
\* without consuming (counted since construction, or since the last
\* transient failure with consuming) sleeps min(k, 30); a backoff sleep is 0
\* exactly when was_consuming was true at that failure, so the first
\* transient failure without consuming sleeps 1.
C19_BackoffPersistsAcrossCalls ==
    /\ self_reconnect_delay = Min(backoffs, MaxReconnectDelay)
    /\ pc = "sleep" =>
          /\ reconnect_delay = 0 <=> was_consuming
          /\ ~was_consuming => backoffs >= 1 /\ reconnect_delay = Min(backoffs, MaxReconnectDelay)
    /\ (pc = "run" /\ calls > 0) => entry_delay = Min(backoffs, MaxReconnectDelay)

C19_Witness ==
    /\ pc = "sleep"
    /\ exc = "ChannelError"
    /\ ~was_consuming
    /\ backoffs = 3
    /\ entry_delay = 2
    /\ reconnect_delay = 3

\* C20: the dispatch does not enforce one action per delivery: any action of
\* any EventContext handed out can be invoked whatever was invoked before,
\* and every invocation reaches the client for that delivery tag: the acks,
\* nacks and redelivery coroutines of a delivery add up to the invocations
\* made on its EventContext, also when there are two or more.
C20_ActionsNotDeduplicated ==
    /\ \A t \in Tags :
          broker[t].ack + broker[t].nack + Cardinality(CoroutinesOf(t)) = InvokedOf(t)
    /\ \A i \in 1..Len(handled), field \in ActionFields :
          TotalInvoked < MaxInvocations => ENABLED Invoke(i, field)

C20_Witness ==
    /\ invoked[1]["processed_successfully"] = 1
    /\ invoked[1]["processed_with_failures"] = 1
    /\ broker[1] = [ack |-> 1, nack |-> 1, nack_requeue |-> 0]
    /\ msg[1] = "dispatched"

====
